---- MODULE Spec2Model ----
(***************************************************************************)
(* isbg: the scan-classify-act pipeline (ISBG.spamassassin), the seen-uid  *)
(* track file (ISBG.pastuid_read / ISBG.pastuid_write) and the IMAP layer  *)
(* (ISBGImap) it drives.  One process run is one call of spamassassin();   *)
(* the mailbox, the spam folder and the track file persist between runs.   *)
(***************************************************************************)
EXTENDS Integers, Sequences, FiniteSets, TLC

\* ---------------------------------------------------------------- bounds
\* messages in the inbox of a real (non-dry) run
MaxMsgs == 2
\* messages in the inbox of a dry run (the dry-run loop stops at the 7th)
MaxDryMsgs == 8
\* process runs in one behaviour
MaxRuns == 2
\* UIDVALIDITY values the server hands out
MaxUidValidity == 2

\* ------------------------------------------------------ program constants
processmax == 5
fakespammax == 1
exitcodeok == 0
exitcodenewmsgs == 1
exitcodenewspam == 2
exitcodenewmsgspam == 3
exitcodeflags == 10
exitcodespamc == 12

MaxUid == IF MaxDryMsgs > MaxMsgs THEN MaxDryMsgs ELSE MaxMsgs
UIDs == 1..MaxUid

Min(a, b) == IF a < b THEN a ELSE b

Range(s) == {s[k] : k \in 1..Len(s)}

\* ------------------------------------------------------------ configuration
\* deletehigherthan is None (<<>>) or a number (<<n>>); parse_args accepts
\* only numbers >= 1.
DeleteThresholds == {<<>>, <<10>>}

\* Inbox sizes and partial-run caps tried: small ones, and for a dry run
\* also one beyond the point where the dry-run loop stops.
Sizes(dry) == (0..MaxMsgs) \cup (IF dry THEN {MaxDryMsgs} ELSE {})

\* The option values spamassassin() reads.  partialrun = 0 is the default
\* False ("if self.partialrun:" is false for both).  The satest/sasave
\* command (spamc or spamassassin) only changes how the score text is
\* obtained, see SaOutcomes.
\* Every combination of the options, on small inboxes.
AllConfigs ==
  [dryrun : BOOLEAN, noreport : BOOLEAN, gmail : BOOLEAN,
   delete : BOOLEAN, flag : BOOLEAN, expunge : BOOLEAN,
   deletehigherthan : DeleteThresholds, partialrun : 0..MaxMsgs]

\* The configurations that leave the inbox alone (no --flag, --delete,
\* --gmail, --expunge).
PlainConfigs ==
  UNION { [dryrun : {dry}, noreport : BOOLEAN, gmail : {FALSE},
           delete : {FALSE}, flag : {FALSE}, expunge : {FALSE},
           deletehigherthan : DeleteThresholds,
           partialrun : Sizes(dry)] : dry \in BOOLEAN }

Configs == AllConfigs \cup PlainConfigs

\* self.spamflags: "\\Flagged" appended by parse_args for --flag, "\\Deleted"
\* appended by do_isbg for --delete without --gmail.  Always a list.
spamflags(c) ==
  (IF c.flag THEN <<"\\Flagged">> ELSE <<>>) \o
  (IF c.delete /\ ~c.gmail THEN <<"\\Deleted">> ELSE <<>>)

spamflagscmd == "+FLAGS.SILENT"

\* ---------------------------------------------------------- track file
\* The file self.pastuidsfile + folder: absent, not JSON, or the JSON object
\* {"uidvalidity": v, "uids": [...]}.  The uid list is only ever used for
\* membership tests and set(), so it is kept as a set.
NoFile == [kind |-> "missing", uidvalidity |-> 0, uids |-> {}]
Garbage == [kind |-> "garbage", uidvalidity |-> 0, uids |-> {}]
JsonFile(v, ids) == [kind |-> "json", uidvalidity |-> v, uids |-> ids]

pastuid_read_AnyIdentity(file, uidvalidity) ==
  IF file.kind = "json" THEN file.uids ELSE {}

\* pastuid_read: open() or json.load() raising is swallowed by the bare
\* except; the stored uids are used only when the stored uidvalidity equals
\* the current one.
pastuid_read(file, uidvalidity) ==
  IF file.kind = "json" /\ file.uidvalidity = uidvalidity
  THEN file.uids
  ELSE {}

pastuid_write_OnlyOrig(uidvalidity, origpastuids_, newpastuids_) ==
  JsonFile(uidvalidity, origpastuids_)

pastuid_write_OnlyNew(uidvalidity, origpastuids_, newpastuids_) ==
  JsonFile(uidvalidity, Range(newpastuids_))

\* pastuid_write: the file is replaced by the current uidvalidity and
\* list(set(newpastuids + origpastuids)).
pastuid_write(uidvalidity, origpastuids_, newpastuids_) ==
  JsonFile(uidvalidity, Range(newpastuids_) \cup origpastuids_)

\* ------------------------------------------------------------- IMAP layer
ImapResp == {"OK", "NO"}

\* A flags argument is a Python str or a Python list.
StrArg(s) == [kind |-> "str", val |-> <<s>>]
ListArg(l) == [kind |-> "list", val |-> l]

\* ISBGImap._imapflags: a str is passed through; for anything else the
\* return statement reads the undefined name flaglist.
_imapflags(f) ==
  IF f.kind = "str" THEN "ok" ELSE "NameError"

\* ISBGImap.store(uid, command, flags) called with the positional arguments
\* args (after self): the exception raised before anything is sent, or "ok".
store(args) ==
  IF Len(args) # 3 THEN "TypeError" ELSE _imapflags(args[3])

_assertok_Never(res) == "none"

\* ISBGImap._assertok: anything but OK raises ISBGImapError.
_assertok(res) == IF res = "OK" THEN "none" ELSE "ISBGImapError"

\* ISBGImap.getmessage: a non-OK FETCH raises ISBGImapError; an OK response
\* without res[1][0][1] reaches self.exception(...), an attribute ISBGImap
\* does not have.
FetchOutcomes == {"OK", "NO", "badshape"}
getmessage(fetch) ==
  IF fetch = "NO" THEN "ISBGImapError"
  ELSE IF fetch = "badshape" THEN "AttributeError"
  ELSE "none"

\* ------------------------------------------------------------- classifier
\* What the satest process can give back: communicate() (or, without --spamc,
\* the score=/required= regex) raising, or a score text and an exit code.
\* Without --spamc the text is rebuilt as group(1) + "/" + group(2) + "\n";
\* with --spamc it is spamc -c's output line.
ScoreTexts == {"0/0\n", "10/10\n", "12/10\n"}
SaOutcomes ==
  {[exc |-> TRUE, score |-> "", code |-> 0]} \cup
  [exc : {FALSE}, score : ScoreTexts, code : {0, 1}]
\* sasave and crnlify (lines 542-552): communicate() raises ("exc"), or it
\* returns and crnlify returns ("ok"), or it returns and crnlify raises.
\* crnlify substitutes with a pattern compiled from a str: on the str that
\* communicate() gives under Python 2 (the interpreter of the file's first
\* line) it returns; on the bytes it gives under Python 3 re.sub raises
\* TypeError.
ProcOutcomes == {"ok", "exc", "TypeError"}

\* float(score.split('/')[0])
Numerator(score) ==
  CASE score = "0/0\n" -> 0
    [] score = "10/10\n" -> 10
    [] score = "12/10\n" -> 12
    [] score = "10/10" -> 10
    [] score = "0/10" -> 0

IsDegenerate_Never(score) == FALSE

\* The test of line 517.
IsDegenerate(score) == score = "0/0\n"

IsAutoDelete_AtLeast(c, score) ==
  /\ c.deletehigherthan # <<>>
  /\ Numerator(score) >= c.deletehigherthan[1]

\* The test of lines 531-532.
IsAutoDelete(c, score) ==
  /\ c.deletehigherthan # <<>>
  /\ Numerator(score) > c.deletehigherthan[1]

\* --------------------------------------------------------------- the state
VARIABLES
  cfg,              \* the options of this installation
  inbox,            \* uids in the scan folder that SEARCH SMALLER returns
  mbox_uidvalidity, \* UIDVALIDITY of the scan folder
  flags,            \* flags of each scan-folder message
  spambox,          \* per uid, how many copies reached the spam folder
  trash,            \* uids copied to [Gmail]/Trash
  selected,         \* the session's selected mailbox and its mode
  trackfile,        \* the persisted seen-state of the scan folder
  runsleft,         \* process runs still to come
  pc,               \* where the run is
  uidvalidity,
  inboxuids,        \* what the search gave (lines 451-453)
  unseen, uids, idx,
  origpastuids, newpastuids, spamlist, spamdeletelist, processednum,
  last,             \* the last classification made by the loop
  result,           \* (numspam, nummsg, spamdeleted) of lines 571-573
  exc,              \* the exception that ended the run, "none" otherwise
  did,              \* the kinds of external operation this run has issued
  fileatload,       \* the track file as pastuid_read found it
  prev,             \* how the previous run ended
  sess,             \* the process around the run: options, session, exit
  learn             \* spamlearn(): options, learn folders, loop state

vars == <<cfg, inbox, mbox_uidvalidity, flags, spambox, trash, selected,
          trackfile, runsleft, pc, uidvalidity, inboxuids, unseen, uids, idx,
          origpastuids,
          newpastuids, spamlist, spamdeletelist, processednum, last, result,
          exc, did, fileatload, prev, sess, learn>>

server == <<inbox, mbox_uidvalidity, flags, spambox, trash>>
locals == <<uidvalidity, inboxuids, unseen, uids, idx, origpastuids, newpastuids,
            spamlist, spamdeletelist, processednum, last, result,
            fileatload>>

NoLast == [uid |-> 0, code |-> 0, score |-> "", path |-> "none"]
NoResult == [numspam |-> 0, nummsg |-> 0, spamdeleted |-> 0]
NoSelect == [mailbox |-> "none", readonly |-> TRUE]
NoPrev == [status |-> "none", uidvalidity |-> 0, orig |-> {},
           found |-> <<>>, unseen |-> <<>>, uids |-> <<>>, seen |-> <<>>]
NoExc == [type |-> "none", code |-> 0]
\* An exception nobody catches ends the process with status 1.
Uncaught(t) == [type |-> t, code |-> 1]

\* errorexit(msg, exitcode)
errorexit(exitcode) ==
  IF exitcode = 0 - 1 THEN Uncaught("ISBGError")
  ELSE [type |-> "SystemExit", code |-> exitcode]

\* No process around the run is followed.
NoSession == [phase |-> "none"]

\* spamlearn() is not followed.
NoLearn == [pc |-> "none"]

\* Before the first run: nothing was ever scanned, no track file exists.
Fresh ==
  /\ mbox_uidvalidity = 1
  /\ flags = [u \in UIDs |-> {}]
  /\ spambox = [u \in UIDs |-> 0]
  /\ trash = {}
  /\ selected = NoSelect
  /\ trackfile = NoFile
  /\ pc = "idle"
  /\ uidvalidity = 0
  /\ inboxuids = <<>>
  /\ unseen = <<>>
  /\ uids = <<>>
  /\ idx = 1
  /\ origpastuids = {}
  /\ newpastuids = <<>>
  /\ spamlist = <<>>
  /\ spamdeletelist = <<>>
  /\ processednum = 0
  /\ last = NoLast
  /\ result = NoResult
  /\ exc = NoExc
  /\ did = {}
  /\ fileatload = NoFile
  /\ prev = NoPrev

\* Several runs of an installation that leaves the inbox alone.
Init ==
  /\ cfg \in PlainConfigs
  /\ inbox \in {1..n : n \in Sizes(cfg.dryrun)}
  /\ runsleft = MaxRuns
  /\ sess = NoSession
  /\ learn = NoLearn
  /\ Fresh

\* One run under every combination of the options.
InitOptions ==
  /\ cfg \in AllConfigs
  /\ inbox \in {1..n : n \in 0..MaxMsgs}
  /\ runsleft = 1
  /\ sess = NoSession
  /\ learn = NoLearn
  /\ Fresh

\* A new process: do_isbg builds the session and calls spamassassin().
StartRun ==
  /\ pc = "idle"
  /\ runsleft > 0
  /\ runsleft' = runsleft - 1
  /\ pc' = "start"
  /\ UNCHANGED <<cfg, sess, learn, server, selected, trackfile, locals, exc, did, prev>>

\* An OK answer to UID SEARCH SMALLER: the uids of the folder, ascending.
SearchSmaller == SelectSeq([k \in 1..MaxUid |-> k], LAMBDA k : k \in inbox)

\* ISBGImap.search returns whatever imaplib returns, unchecked.  With a NO
\* answer res[1][0] is the text of the response; lines 452-453 split it into
\* words and take them as uids: none when the text is empty, otherwise
\* words that are no uid of the folder (written 0).
NoUid == 0
JunkLists == {<<>>, <<NoUid>>}
search(res) == IF res = "OK" THEN {SearchSmaller} ELSE JunkLists

\* Line 460: uids = [u for u in inboxuids if u not in origpastuids]
Candidates(found, orig) == SelectSeq(found, LAMBDA u : u \notin orig)

Truncate_NoCap(c, us) == us

\* Lines 463-464: uids = uids[:int(self.partialrun)] when partialrun is set.
Truncate(c, us) ==
  IF c.partialrun # 0 THEN SubSeq(us, 1, Min(c.partialrun, Len(us))) ELSE us

\* Where the for loop of line 480 goes after an iteration.
AfterIteration(k, us) == IF k > Len(us) THEN "write" ELSE "loop"

\* The run ends with exception e.
Abort(e) == pc' = "aborted" /\ exc' = e

\* Lines 436-472: select the spam folder, select the inbox, read its
\* UIDVALIDITY, search, load the seen uids, filter, truncate.
Begin ==
  /\ pc = "start"
  /\ \E rspam \in ImapResp, rinbox \in ImapResp, rstatus \in ImapResp,
        rsearch \in ImapResp, found \in search("OK") \cup search("NO") :
       /\ found \in search(rsearch)
       /\ (_assertok(rspam) # "none" \/ _assertok(rinbox) # "none"
             \/ _assertok(rstatus) # "none") => rsearch = "OK"
       /\ LET o1 == did \cup {"select_spam"} \cup
                      (IF rspam = "OK" THEN {} ELSE {"select_spam_no"})
              o2 == o1 \cup {"select_inbox"}
              o3 == o2 \cup {"status"}
              o4 == o3 \cup {IF rsearch = "OK" THEN "search" ELSE "search_no"}
              orig == pastuid_read(trackfile, mbox_uidvalidity)
              cand == Candidates(found, orig)
              us == Truncate(cfg, cand)
          IN
            IF _assertok(rspam) # "none"
            THEN /\ Abort(Uncaught(_assertok(rspam)))
                 /\ did' = o1
                 /\ UNCHANGED <<selected, locals>>
            ELSE IF _assertok(rinbox) # "none"
            THEN /\ Abort(Uncaught(_assertok(rinbox)))
                 /\ did' = o2
                 /\ selected' = NoSelect
                 /\ UNCHANGED locals
            ELSE IF _assertok(rstatus) # "none"
            THEN /\ Abort(Uncaught(_assertok(rstatus)))
                 /\ did' = o3
                 /\ selected' = [mailbox |-> "imapinbox", readonly |-> TRUE]
                 /\ UNCHANGED locals
            ELSE /\ did' = o4
                 /\ selected' = [mailbox |-> "imapinbox", readonly |-> TRUE]
                 /\ uidvalidity' = mbox_uidvalidity
                 /\ fileatload' = trackfile
                 /\ origpastuids' = orig
                 /\ inboxuids' = found
                 /\ unseen' = cand
                 /\ uids' = us
                 /\ idx' = 1
                 /\ pc' = AfterIteration(1, us)
                 /\ exc' = NoExc
                 /\ UNCHANGED <<newpastuids, spamlist, spamdeletelist,
                                processednum, last, result>>
  /\ UNCHANGED <<cfg, sess, learn, server, trackfile, runsleft, prev>>

\* ------------------------------------------------ one iteration of the loop
\* The loop state an iteration starts from.
LoopState ==
  [newpastuids |-> newpastuids, spamlist |-> spamlist,
   spamdeletelist |-> spamdeletelist, processednum |-> processednum,
   last |-> last, did |-> did, spambox |-> spambox,
   ctl |-> "continue", exc |-> NoExc]

Did(s, name) == [s EXCEPT !.did = @ \cup {name}]
Path(s, p) == [s EXCEPT !.last.path = p]
Raise(s, e) == [s EXCEPT !.ctl = "raise", !.exc = e]

AutoDelete_AndReport(s, u) ==
  [s EXCEPT !.spamdeletelist = Append(@, u), !.spamlist = Append(@, u),
            !.spambox[u] = @ + 1, !.last.path = "delete"]

\* Lines 533-534: the message goes on the delete list and nothing else is
\* done with it.
AutoDelete(s, u) ==
  Path([s EXCEPT !.spamdeletelist = Append(@, u)], "delete")

\* Line 567.
ListSpam(s, u, p) == Path([s EXCEPT !.spamlist = Append(@, u)], p)

ReportSpam_ListAlways(c, s, u, save, resp) ==
  IF c.noreport = FALSE
  THEN IF c.dryrun
       THEN ListSpam(s, u, "dry")
       ELSE LET s1 == Did(s, "sasave") IN
            IF save = "exc"
            THEN Path(s1, "saveexc")
            ELSE IF save = "TypeError"
            THEN Raise(Path(s1, "crnlexc"), Uncaught("TypeError"))
            ELSE LET s2 == Did(s1, "append") IN
                 IF _assertok(resp) # "none"
                 THEN ListSpam(s2, u, "appendfail")
                 ELSE ListSpam([s2 EXCEPT !.spambox[u] = @ + 1], u, "report")
  ELSE IF c.dryrun
       THEN ListSpam(s, u, "dry")
       ELSE LET s1 == Did(s, "copy_spam") IN
            IF _assertok(resp) # "none"
            THEN Raise(Path(s1, "copyfail"), Uncaught(_assertok(resp)))
            ELSE ListSpam([s1 EXCEPT !.spambox[u] = @ + 1], u, "copy")

\* Lines 536-567: the message is spam below the delete threshold.
ReportSpam(c, s, u, save, resp) ==
  IF c.noreport = FALSE
  THEN IF c.dryrun
       THEN ListSpam(s, u, "dry")
       ELSE LET s1 == Did(s, "sasave") IN
            IF save = "exc"
            THEN Path(s1, "saveexc")
            ELSE IF save = "TypeError"
            THEN Raise(Path(s1, "crnlexc"), Uncaught("TypeError"))
            ELSE LET s2 == Did(s1, "append") IN
                 IF _assertok(resp) # "none"
                 THEN Path(s2, "appendfail")
                 ELSE ListSpam([s2 EXCEPT !.spambox[u] = @ + 1], u, "report")
  ELSE IF c.dryrun
       THEN ListSpam(s, u, "dry")
       ELSE LET s1 == Did(s, "copy_spam") IN
            IF _assertok(resp) # "none"
            THEN Raise(Path(s1, "copyfail"), Uncaught(_assertok(resp)))
            ELSE ListSpam([s1 EXCEPT !.spambox[u] = @ + 1], u, "copy")

Act_CodeFirst(c, s, u, score, code) ==
  LET s1 == [s EXCEPT !.last = [uid |-> u, code |-> code, score |-> score,
                                path |-> "none"]]
  IN
    IF code = 0
    THEN Path(s1, "ham")
    ELSE IF IsDegenerate(score)
    THEN Raise(Path(s1, "degenerate"), errorexit(exitcodespamc))
    ELSE IF IsAutoDelete(c, score)
    THEN AutoDelete(s1, u)
    ELSE s1

\* Lines 517-567: what is done with a score text and an exit code.
Act(c, s, u, score, code) ==
  LET s1 == [s EXCEPT !.last = [uid |-> u, code |-> code, score |-> score,
                                path |-> "none"]]
  IN
    IF IsDegenerate(score)
    THEN Raise(Path(s1, "degenerate"), errorexit(exitcodespamc))
    ELSE IF code = 0
    THEN Path(s1, "ham")
    ELSE IF IsAutoDelete(c, score)
    THEN AutoDelete(s1, u)
    ELSE s1

MarkSeen_Never(s, u) == s

\* Line 483: newpastuids.append(u)
MarkSeen(s, u) == [s EXCEPT !.newpastuids = Append(@, u)]

\* Lines 481-567 for message u.
LoopBody(c, s, u, fetch, sa, save, resp) ==
  LET s1 == [Did(s, "fetch") EXCEPT
               !.last = [uid |-> u, code |-> 0, score |-> "",
                         path |-> "fetchfail"]]
  IN
  IF getmessage(fetch) # "none"
  THEN Raise(s1, Uncaught(getmessage(fetch)))
  ELSE
    LET s2 == MarkSeen(s1, u) IN
    IF c.dryrun
    THEN IF s.processednum > processmax
         THEN [Path(s2, "break") EXCEPT !.ctl = "break"]
         ELSE LET fake == s.processednum < fakespammax
                  score == IF fake THEN "10/10" ELSE "0/10"
                  code == IF fake THEN 1 ELSE 0
                  s3 == [s2 EXCEPT !.processednum = @ + 1]
                  s4 == Act(c, s3, u, score, code)
              IN IF s4.last.path = "none"
                 THEN ReportSpam(c, s4, u, save, resp)
                 ELSE s4
    ELSE LET s3 == Did(s2, "satest") IN
         IF sa.exc
         THEN Path(s3, "scoreexc")
         ELSE LET s4 == Act(c, s3, u, sa.score, sa.code)
              IN IF s4.last.path = "none"
                 THEN ReportSpam(c, s4, u, save, resp)
                 ELSE s4

\* An outcome the iteration never reads is not varied: no process is run
\* after a failed fetch or in a dry run, and sasave and APPEND/COPY answer
\* only for a message that gets that far.
NoSa == [exc |-> TRUE, score |-> "", code |-> 0]
Read(c, fetch, sa, save, resp) ==
  LET scored == fetch = "OK" /\ ~c.dryrun
      reported == /\ scored /\ ~sa.exc /\ sa.code # 0
                  /\ ~IsDegenerate(sa.score) /\ ~IsAutoDelete(c, sa.score)
  IN /\ ~scored => sa = NoSa
     /\ ~(reported /\ ~c.noreport) => save = "ok"
     /\ ~(reported /\ save = "ok") => resp = "OK"

ProcessMessage ==
  /\ pc = "loop"
  /\ idx <= Len(uids)
  /\ \E fetch \in FetchOutcomes, sa \in SaOutcomes, save \in ProcOutcomes,
        resp \in ImapResp :
       /\ Read(cfg, fetch, sa, save, resp)
       /\ uids[idx] = NoUid => fetch # "OK"
       /\ LET s == LoopBody(cfg, LoopState, uids[idx], fetch, sa, save, resp) IN
          /\ newpastuids' = s.newpastuids
          /\ spamlist' = s.spamlist
          /\ spamdeletelist' = s.spamdeletelist
          /\ processednum' = s.processednum
          /\ last' = s.last
          /\ did' = s.did
          /\ spambox' = s.spambox
          /\ exc' = s.exc
          /\ idx' = IF s.ctl = "continue" THEN idx + 1 ELSE idx
          /\ pc' = CASE s.ctl = "continue" -> AfterIteration(idx + 1, uids)
                     [] s.ctl = "break" -> "write"
                     [] s.ctl = "raise" -> "aborted"
  /\ UNCHANGED <<cfg, sess, learn, inbox, mbox_uidvalidity, flags, trash, selected,
                 trackfile, runsleft, uidvalidity, inboxuids, unseen, uids, origpastuids,
                 result, fileatload, prev>>

\* ------------------------------------------------------------ after the loop
Counters_ListedOnly(us, spam, deleted) ==
  [numspam |-> Len(spam), nummsg |-> Len(us), spamdeleted |-> Len(deleted)]

\* Lines 571-573 and 599: (numspam, nummsg, spamdeleted).
Counters(us, spam, deleted) ==
  [numspam |-> Len(spam) + Len(deleted), nummsg |-> Len(us),
   spamdeleted |-> Len(deleted)]

MarksOriginals_Always(c, res) == ~c.dryrun

\* Lines 575-578: "if numspam or spamdeleted:" and not a dry run.
MarksOriginals(c, res) ==
  (res.numspam # 0 \/ res.spamdeleted # 0) /\ ~c.dryrun

\* Lines 569-578: persist the seen uids, count, and decide whether the
\* original messages are to be marked.
WritePastuids ==
  /\ pc = "write"
  /\ trackfile' = pastuid_write(uidvalidity, origpastuids, newpastuids)
  /\ did' = did \cup {"write"}
  /\ last' = NoLast
  /\ result' = Counters(uids, spamlist, spamdeletelist)
  /\ pc' = IF MarksOriginals(cfg, result') THEN "reselect" ELSE "return"
  /\ UNCHANGED <<cfg, sess, learn, server, selected, runsleft, uidvalidity, inboxuids, unseen, uids, idx,
                 origpastuids, newpastuids, spamlist, spamdeletelist,
                 processednum, exc, fileatload, prev>>

\* Line 580: res = self.imap.select(self.imapinbox)
Reselect ==
  /\ pc = "reselect"
  /\ \E r \in ImapResp :
       /\ did' = did \cup {"select_inbox"}
       /\ IF _assertok(r) # "none"
          THEN /\ Abort(Uncaught(_assertok(r)))
               /\ selected' = NoSelect
          ELSE /\ pc' = "flagspam"
               /\ selected' = [mailbox |-> "imapinbox", readonly |-> TRUE]
               /\ UNCHANGED exc
  /\ UNCHANGED <<cfg, sess, learn, server, trackfile, runsleft, locals, prev>>

AddFlags(fl, done, new) ==
  [u \in UIDs |-> IF u \in done THEN fl[u] \cup Range(new) ELSE fl[u]]

\* Lines 582-585: store the configured flags on every listed spam.
FlagSpam ==
  /\ pc = "flagspam"
  /\ \E nok \in 0..Len(spamlist) :
       LET call == store(<<0, spamflagscmd, ListArg(spamflags(cfg))>>) IN
       IF Len(spamflags(cfg)) > 0 /\ spamlist # <<>>
       THEN IF call # "ok"
            THEN /\ Abort(Uncaught(call))
                 /\ UNCHANGED <<flags, did, newpastuids>>
            ELSE /\ flags' = AddFlags(flags, Range(SubSeq(spamlist, 1, nok)),
                                      spamflags(cfg))
                 /\ did' = did \cup {"store"}
                 /\ newpastuids' = newpastuids \o SubSeq(spamlist, 1, nok)
                 /\ IF nok < Len(spamlist)
                    THEN Abort(Uncaught("ISBGImapError"))
                    ELSE pc' = "trashspam" /\ UNCHANGED exc
       ELSE /\ pc' = "trashspam"
            /\ UNCHANGED <<flags, did, newpastuids, exc>>
  /\ UNCHANGED <<cfg, sess, learn, inbox, mbox_uidvalidity, spambox, trash, selected,
                 trackfile, runsleft, uidvalidity, inboxuids, unseen, uids, idx,
                 origpastuids, spamlist, spamdeletelist, processednum, last,
                 result, fileatload, prev>>

WantsTrash_Gmail(c) == c.gmail

\* Line 587: if self.delete and self.gmail
WantsTrash(c) == c.delete /\ c.gmail

\* Lines 587-589: with --delete and --gmail the listed spam is copied to the
\* trash folder.
TrashSpam ==
  /\ pc = "trashspam"
  /\ \E nok \in 0..Len(spamlist) :
       IF WantsTrash(cfg)
       THEN /\ trash' = trash \cup Range(SubSeq(spamlist, 1, nok))
            /\ did' = did \cup {"copy_trash"}
            /\ IF nok < Len(spamlist)
               THEN Abort(Uncaught("ISBGImapError"))
               ELSE pc' = "deletelist" /\ UNCHANGED exc
       ELSE /\ pc' = "deletelist"
            /\ UNCHANGED <<trash, did, exc>>
  /\ UNCHANGED <<cfg, sess, learn, inbox, mbox_uidvalidity, flags, spambox, selected,
                 trackfile, runsleft, locals, prev>>

\* Lines 591-595: the delete list is copied to the trash folder (gmail) or
\* store() is called with ("STORE", u, self.spamflagscmd, "(\\Deleted)").
DeleteHighScore ==
  /\ pc = "deletelist"
  /\ \E nok \in 0..Len(spamdeletelist) :
       LET call == store(<<"STORE", 0, spamflagscmd, StrArg("(\\Deleted)")>>)
       IN
       IF spamdeletelist = <<>>
       THEN /\ pc' = "expunge"
            /\ UNCHANGED <<trash, flags, did, exc>>
       ELSE IF cfg.gmail = TRUE
       THEN /\ trash' = trash \cup Range(SubSeq(spamdeletelist, 1, nok))
            /\ did' = did \cup {"copy_trash"}
            /\ IF nok < Len(spamdeletelist)
               THEN Abort(Uncaught("ISBGImapError"))
               ELSE pc' = "expunge" /\ UNCHANGED exc
            /\ UNCHANGED flags
       ELSE IF call # "ok"
       THEN /\ Abort(Uncaught(call))
            /\ UNCHANGED <<trash, flags, did>>
       ELSE /\ flags' = AddFlags(flags, Range(SubSeq(spamdeletelist, 1, nok)),
                                 <<"\\Deleted">>)
            /\ did' = did \cup {"store"}
            /\ IF nok < Len(spamdeletelist)
               THEN Abort(Uncaught("ISBGImapError"))
               ELSE pc' = "expunge" /\ UNCHANGED exc
            /\ UNCHANGED trash
  /\ UNCHANGED <<cfg, sess, learn, inbox, mbox_uidvalidity, spambox, selected,
                 trackfile, runsleft, locals, prev>>

\* Lines 596-597: EXPUNGE removes the messages flagged \Deleted.
Expunge ==
  /\ pc = "expunge"
  /\ \E r \in ImapResp :
       IF cfg.expunge
       THEN /\ did' = did \cup {"expunge"}
            /\ IF _assertok(r) # "none"
               THEN /\ Abort(Uncaught(_assertok(r)))
                    /\ UNCHANGED <<inbox, flags>>
               ELSE /\ inbox' = {u \in inbox : "\\Deleted" \notin flags[u]}
                    /\ flags' = [u \in UIDs |->
                                   IF u \in inbox' THEN flags[u] ELSE {}]
                    /\ pc' = "return"
                    /\ UNCHANGED exc
       ELSE /\ pc' = "return"
            /\ UNCHANGED <<inbox, flags, did, exc>>
  /\ UNCHANGED <<cfg, sess, learn, mbox_uidvalidity, spambox, trash, selected,
                 trackfile, runsleft, locals, prev>>

\* Line 599: return (numspam, nummsg, spamdeleted)
Return ==
  /\ pc = "return"
  /\ pc' = "done"
  /\ UNCHANGED <<cfg, sess, learn, server, selected, trackfile, runsleft, locals, exc, did,
                 prev>>

\* The process ends, normally or with the exception.
Exit ==
  /\ pc \in {"done", "aborted"}
  /\ pc' = "idle"
  /\ prev' = IF pc = "done"
             THEN [status |-> "done", uidvalidity |-> uidvalidity,
                   orig |-> origpastuids, found |-> inboxuids,
                   unseen |-> unseen, uids |-> uids,
                   seen |-> newpastuids]
             ELSE [NoPrev EXCEPT !.status = "aborted"]
  /\ selected' = NoSelect
  /\ uidvalidity' = 0
  /\ inboxuids' = <<>>
  /\ unseen' = <<>>
  /\ uids' = <<>>
  /\ idx' = 1
  /\ origpastuids' = {}
  /\ newpastuids' = <<>>
  /\ spamlist' = <<>>
  /\ spamdeletelist' = <<>>
  /\ processednum' = 0
  /\ last' = NoLast
  /\ result' = NoResult
  /\ exc' = NoExc
  /\ did' = {}
  /\ fileatload' = NoFile
  /\ UNCHANGED <<cfg, sess, learn, server, trackfile, runsleft>>

\* ------------------------------------------------- between two process runs
\* At most one thing changes between two runs; prev describes the previous
\* run only as long as nothing has changed since.
Disturbed == [NoPrev EXCEPT !.status = "changed"]
Between == pc = "idle" /\ runsleft > 0 /\ prev.status \in {"done", "aborted"}

NextUid == IF inbox = {} THEN 1
           ELSE 1 + CHOOSE m \in inbox : \A x \in inbox : x <= m

\* A message is delivered to the scan folder.
NewMail ==
  /\ Between
  /\ NextUid <= MaxUid
  /\ inbox' = inbox \cup {NextUid}
  /\ prev' = Disturbed
  /\ UNCHANGED <<cfg, sess, learn, mbox_uidvalidity, flags, spambox, trash, selected,
                 trackfile, runsleft, pc, locals, exc, did>>

\* The scan folder is renumbered or created anew: its uids start again
\* from 1 and it holds the same number of messages or fewer.
UidValidityChange ==
  /\ Between
  /\ mbox_uidvalidity < MaxUidValidity
  /\ mbox_uidvalidity' = mbox_uidvalidity + 1
  /\ inbox' \in {1..k : k \in 0..Cardinality(inbox)}
  /\ prev' = Disturbed
  /\ UNCHANGED <<cfg, sess, learn, flags, spambox, trash, selected,
                 trackfile, runsleft, pc, locals, exc, did>>

\* The track file is removed, or overwritten with something json.load
\* rejects.
TrackfileLost ==
  /\ Between
  /\ trackfile.kind = "json"
  /\ trackfile' \in {NoFile, Garbage}
  /\ prev' = Disturbed
  /\ UNCHANGED <<cfg, sess, learn, server, selected, runsleft, pc, locals, exc, did>>

\* The process is terminated from outside (a signal, a power cut) while the
\* loop runs: nothing of lines 569-599 is executed.
Killed ==
  /\ pc = "loop"
  /\ Abort([type |-> "Killed", code |-> 1])
  /\ UNCHANGED <<cfg, sess, learn, server, selected, trackfile, runsleft, locals, did,
                 prev>>

\* The process ends inside pastuid_write, between open(..., "w+") of line
\* 422, which empties the file, and f.close() of line 433: it is terminated,
\* or json.dump raises on a full disk.  What is left is an empty file or the
\* beginning of the JSON text.
WriteInterrupted ==
  /\ pc = "write"
  /\ trackfile' = Garbage
  /\ Abort([type |-> "Killed", code |-> 1])
  /\ UNCHANGED <<cfg, sess, learn, server, selected, runsleft, locals, did, prev>>

\* The steps of spamassassin().
Scan ==
  \/ StartRun
  \/ Begin
  \/ ProcessMessage
  \/ WritePastuids
  \/ Reselect
  \/ FlagSpam
  \/ TrashSpam
  \/ DeleteHighScore
  \/ Expunge
  \/ Return

\* The steps of a process run.
Run ==
  \/ Scan
  \/ Exit

Next ==
  \/ Run
  \/ NewMail
  \/ UidValidityChange
  \/ TrackfileLost

Spec == Init /\ [][Next]_vars

SpecOptions == InitOptions /\ [][Run]_vars

\* Several real runs of an installation that copies the listed spam to the
\* trash folder (--delete --gmail), the later runs finding the track file
\* of the earlier ones.
MarkConfigs ==
  {c \in AllConfigs : /\ ~c.dryrun /\ c.delete /\ c.gmail /\ ~c.expunge
                      /\ c.partialrun <= 1}

InitMarked ==
  /\ cfg \in MarkConfigs
  /\ inbox \in {1..n : n \in 0..MaxMsgs}
  /\ runsleft = MaxRuns
  /\ sess = NoSession
  /\ learn = NoLearn
  /\ Fresh

SpecMarked == InitMarked /\ [][Run]_vars

\* Several runs, any of which may be ended from outside.
NextCrash ==
  \/ Next
  \/ Killed
  \/ WriteInterrupted

SpecCrash == Init /\ [][NextCrash]_vars

\* ------------------------------------------- the track file on its own
\* pastuid_write followed by pastuid_read, on every pair of a stored set and
\* a list of new uids over a few ids, overlapping or not.
RtIds == 1..MaxMsgs
RtLists == UNION {[1..n -> RtIds] : n \in 0..MaxMsgs}

InitRoundTrip ==
  /\ cfg \in {c \in PlainConfigs : c.partialrun = 0 /\ ~c.dryrun}
  /\ inbox = {}
  /\ mbox_uidvalidity \in 1..MaxUidValidity
  /\ flags = [u \in UIDs |-> {}]
  /\ spambox = [u \in UIDs |-> 0]
  /\ trash = {}
  /\ selected = NoSelect
  /\ trackfile \in {NoFile, Garbage}
  /\ runsleft = 0
  /\ pc = "rt_start"
  /\ uidvalidity = mbox_uidvalidity
  /\ inboxuids = <<>>
  /\ sess = NoSession
  /\ learn = NoLearn
  /\ unseen = <<>>
  /\ uids = <<>>
  /\ idx = 1
  /\ origpastuids \in SUBSET RtIds
  /\ newpastuids \in RtLists
  /\ spamlist = <<>>
  /\ spamdeletelist = <<>>
  /\ processednum = 0
  /\ last = NoLast
  /\ result = NoResult
  /\ exc = NoExc
  /\ did = {}
  /\ fileatload = trackfile
  /\ prev = NoPrev

\* Save: self.pastuid_write(uidvalidity, origpastuids, newpastuids)
RtSave ==
  /\ pc = "rt_start"
  /\ trackfile' = pastuid_write(uidvalidity, origpastuids, newpastuids)
  /\ prev' = [prev EXCEPT !.status = "saved", !.uidvalidity = uidvalidity,
                          !.orig = origpastuids, !.seen = newpastuids]
  /\ pc' = "rt_saved"
  /\ UNCHANGED <<cfg, sess, learn, server, selected, runsleft, locals, exc, did>>

\* The folder's UIDVALIDITY may have changed before the next Load.
RtRenumber ==
  /\ pc = "rt_saved"
  /\ mbox_uidvalidity < MaxUidValidity
  /\ mbox_uidvalidity' = mbox_uidvalidity + 1
  /\ UNCHANGED <<cfg, sess, learn, inbox, flags, spambox, trash, selected, trackfile,
                 runsleft, pc, locals, exc, did, prev>>

\* Load: origpastuids = self.pastuid_read(uidvalidity)
RtLoad ==
  /\ pc = "rt_saved"
  /\ uidvalidity' = mbox_uidvalidity
  /\ fileatload' = trackfile
  /\ origpastuids' = pastuid_read(trackfile, mbox_uidvalidity)
  /\ newpastuids' = <<>>
  /\ pc' = "rt_loaded"
  /\ UNCHANGED <<cfg, sess, learn, server, selected, trackfile, runsleft, inboxuids, unseen,
                 uids,
                 idx, spamlist, spamdeletelist, processednum, last, result,
                 exc, did, prev>>

NextRoundTrip == RtSave \/ RtRenumber \/ RtLoad

SpecRoundTrip == InitRoundTrip /\ [][NextRoundTrip]_vars

\* ------------------------------------------- the process around the run
\* isbg_run / do_isbg: the options are set, the session is opened,
\* spamlearn() and (without --teachonly) spamassassin() run, the session is
\* closed and the process exits.
MaxLogoutCalls == 3

\* ISBG.set_learning_opts: the exception it raises.
set_learning_opts(learnflagged, learnunflagged) ==
  IF learnflagged /\ learnunflagged THEN "ValueError" ELSE "none"

\* ISBG.parse_args, lines 386-387: both options are taken from the command
\* line as they are; nothing is raised.
parse_args(learnflagged, learnunflagged) == "none"

\* Lines 629-634: the criterion spamlearn searches with.
LearnCriterion(learnflagged, learnunflagged) ==
  IF learnunflagged THEN "UNFLAGGED"
  ELSE IF learnflagged THEN "(FLAGGED)"
  ELSE "ALL"

logout_Resend(imap) == [imap |-> "None", sent |-> 1]

\* ISBGImap.logout: LOGOUT is sent only when self.imap is set, and self.imap
\* is None afterwards.
logout(imap) ==
  [imap |-> "None", sent |-> IF imap # "None" THEN 1 ELSE 0]

\* Lines 824-833: the status do_isbg exits with after a normal run; falling
\* off the end of isbg_run is status 0.
ExitCode(exitcodes, teachonly, numspam, nummsg) ==
  IF ~exitcodes THEN 0
  ELSE IF teachonly THEN exitcodeok
  ELSE IF numspam = 0 THEN exitcodenewmsgs
  ELSE IF numspam = nummsg THEN exitcodenewspam
  ELSE exitcodenewmsgspam

\* What a finished process was: a normal outcome or an error kind.
Outcome(teachonly, numspam, nummsg) ==
  IF teachonly THEN "ok"
  ELSE IF numspam = 0 THEN "nospam"
  ELSE IF numspam = nummsg THEN "allspam"
  ELSE "mixed"

ErrorKind(e) ==
  CASE e.type \in {"ISBGImapError", "IMAP4.error"} -> "protocol"
    [] e.type = "SystemExit" /\ e.code = exitcodespamc -> "transport"
    [] e.type = "SystemExit" /\ e.code = exitcodeflags -> "misconfigured"
    [] OTHER -> "crash"

\* The installation the session is followed on: a real run with the report,
\* no marking of the inbox.
SessionConfigs ==
  {c \in AllConfigs : /\ ~c.dryrun /\ ~c.noreport /\ ~c.gmail /\ ~c.delete
                      /\ ~c.flag /\ ~c.expunge /\ c.partialrun = 0
                      /\ c.deletehigherthan = <<>>}

\* via: the options come from the setters ("api") or from the command line
\* ("cli").  imap is ISBGImap.imap.  io is the protocol traffic outside
\* spamassassin(); calls and logouts count the calls of ISBGImap.logout and
\* the LOGOUT commands sent.
NewSession ==
  [phase : {"new"}, via : {"api", "cli"},
   learnflagged : BOOLEAN, learnunflagged : BOOLEAN,
   learnspambox : BOOLEAN, teachonly : BOOLEAN, exitcodes : BOOLEAN,
   imap : {"None"}, opened : {FALSE}, io : {{}}, calls : {0}, logouts : {0},
   exc : {NoExc}, kind : {"none"}, status : {0}]

InitSession ==
  /\ cfg \in SessionConfigs
  /\ inbox \in {1..n : n \in 0..MaxMsgs}
  /\ runsleft = 1
  /\ sess \in NewSession
  /\ learn = NoLearn
  /\ Fresh

outside == <<cfg, learn, server, selected, trackfile, runsleft, pc, locals,
             exc, did, prev>>

\* The options are set: by set_learning_opts, which may raise, or by
\* parse_args.
Configure ==
  /\ sess.phase = "new"
  /\ LET e == IF sess.via = "api"
              THEN set_learning_opts(sess.learnflagged, sess.learnunflagged)
              ELSE parse_args(sess.learnflagged, sess.learnunflagged)
     IN sess' = IF e = "none"
                THEN [sess EXCEPT !.phase = "configured"]
                ELSE [sess EXCEPT !.phase = "rejected",
                                  !.exc = Uncaught(e)]
  /\ UNCHANGED outside

\* Lines 776-779 and ISBGImap.connect: the connection is refused (self.imap
\* stays None), or it is opened and LOGIN is refused (imaplib raises), or
\* the session is open.
ConnectOutcomes == {"refused", "login_no", "ok"}
Connect ==
  /\ sess.phase = "configured"
  /\ \E r \in ConnectOutcomes :
       sess' = CASE r = "refused" ->
                      [sess EXCEPT !.phase = "failed", !.io = @ \cup {"connect"},
                                   !.exc = Uncaught("OSError")]
                 [] r = "login_no" ->
                      [sess EXCEPT !.phase = "failed", !.imap = "conn",
                                   !.opened = TRUE,
                                   !.io = @ \cup {"connect", "login"},
                                   !.exc = Uncaught("IMAP4.error")]
                 [] r = "ok" ->
                      [sess EXCEPT !.phase = "connected", !.imap = "conn",
                                   !.opened = TRUE,
                                   !.io = @ \cup {"connect", "login"}]
  /\ UNCHANGED outside

\* spamlearn(), lines 602-680, on the learn-spam folder when one is set:
\* STATUS, SELECT, SEARCH with the criterion of the options, then per
\* message FETCH, spamc --learntype and the marking, then pastuid_write.
\* The outcome is one of: all went through; STATUS, SELECT or a FETCH was
\* answered NO; SEARCH was answered NO with an empty text (the loop is
\* empty) or with words (int(u) raises); spamc exited with 69 or 74.
LearnOutcomes == {"ok", "status_no", "select_no", "search_no_empty",
                  "search_no_words", "fetch_no", "misconfigured"}
LearnIo(r) ==
  {"status"} \cup
  (IF r # "status_no" THEN {"select"} ELSE {}) \cup
  (IF r \notin {"status_no", "select_no"} THEN {"search"} ELSE {}) \cup
  (IF r \in {"ok", "fetch_no", "misconfigured"} THEN {"fetch"} ELSE {}) \cup
  (IF r \in {"ok", "search_no_empty"} THEN {"write"} ELSE {})
LearnExc(r) ==
  CASE r \in {"status_no", "select_no", "fetch_no"} -> Uncaught("ISBGImapError")
    [] r = "search_no_words" -> Uncaught("ValueError")
    [] r = "misconfigured" -> errorexit(exitcodeflags)
    [] OTHER -> NoExc

Learn ==
  /\ sess.phase = "connected"
  /\ \E r \in LearnOutcomes :
       /\ ~sess.learnspambox => r = "ok"
       /\ sess' = [sess EXCEPT
                     !.phase = IF LearnExc(r) = NoExc THEN "learnt" ELSE "failed",
                     !.io = IF sess.learnspambox THEN @ \cup LearnIo(r) ELSE @,
                     !.exc = LearnExc(r)]
  /\ UNCHANGED outside

\* Line 803: spamassassin() runs unless --teachonly.
Scanning ==
  /\ sess.phase = "learnt"
  /\ ~sess.teachonly
  /\ Scan

\* Lines 811-833: after spamlearn() and spamassassin() returned, the session
\* is logged out and the process exits with the status of the outcome.  An
\* exception raised before that ends the process with its own status.
Finish ==
  /\ \/ sess.phase = "failed"
     \/ sess.phase = "learnt" /\ (sess.teachonly \/ pc \in {"done", "aborted"})
  /\ LET e == IF sess.phase = "failed" THEN sess.exc ELSE exc
         lo == logout(sess.imap)
     IN sess' =
          IF e # NoExc
          THEN [sess EXCEPT !.phase = "exited", !.exc = e,
                            !.kind = ErrorKind(e), !.status = e.code]
          ELSE [sess EXCEPT
                  !.phase = "exited", !.imap = lo.imap,
                  !.calls = @ + 1, !.logouts = @ + lo.sent,
                  !.kind = Outcome(sess.teachonly, result.numspam,
                                   result.nummsg),
                  !.status = ExitCode(sess.exitcodes, sess.teachonly,
                                      result.numspam, result.nummsg)]
  /\ UNCHANGED outside

\* ISBGImap.__del__, or any other caller, calls logout() on the session
\* object that do_isbg leaves behind.
Logout ==
  /\ sess.phase = "exited"
  /\ sess.calls < MaxLogoutCalls
  /\ LET lo == logout(sess.imap) IN
       sess' = [sess EXCEPT !.imap = lo.imap, !.calls = @ + 1,
                            !.logouts = @ + lo.sent]
  /\ UNCHANGED outside

NextSession ==
  \/ Configure
  \/ Connect
  \/ Learn
  \/ Scanning
  \/ Finish
  \/ Logout

SpecSession == InitSession /\ [][NextSession]_vars

\* ------------------------------------------------------------- spamlearn()
\* do_isbg, lines 789-809: spamlearn() teaches the classifier from the
\* learn-spam and the learn-ham folder, then spamassassin() runs unless
\* --teachonly.
\* messages in the learn folders of one behaviour
MaxLearnMsgs == 2

alreadylearnt == "Message was already un/learned"
learnt == "Message successfully un/learned from classifier"

\* The options spamlearn() and do_isbg read besides dryrun and gmail; a
\* folder option is TRUE when the folder is set, movehamto when it is not
\* None.
LearnOpts ==
  [learnspambox : BOOLEAN, learnhambox : BOOLEAN, movehamto : BOOLEAN,
   learnthendestroy : BOOLEAN, learnthenflag : BOOLEAN, teachonly : BOOLEAN]

\* Lines 603-614.
learns(o) ==
  << [inbox |-> o.learnspambox, learntype |-> "spam", moveto |-> FALSE],
     [inbox |-> o.learnhambox, learntype |-> "ham", moveto |-> o.movehamto] >>

Roles == 1..2

\* What the spamc --learntype process can give back: communicate() or
\* decode(errors='replace') raising (the latter always does under Python 2,
\* the interpreter of the file's first line), or a text and an exit code.
TeachOutcomes ==
  {[exc |-> TRUE, out |-> "", code |-> 0]} \cup
  [exc : {FALSE}, out : {alreadylearnt, learnt}, code : {0, 69, 74}]

IsMisconfigured_Only69(code) == code = 69

\* Line 660: if code == 69 or code == 74
IsMisconfigured(code) == code = 69 \/ code = 74

Disposition_All(c, o, lt) ==
  IF c.dryrun THEN <<>>
  ELSE (IF o.learnthendestroy
        THEN IF c.gmail THEN <<"copy_trash">> ELSE <<"store_deleted">>
        ELSE <<>>) \o
       (IF lt.moveto THEN <<"copy_moveto">> ELSE <<>>) \o
       (IF o.learnthenflag THEN <<"store_flagged">> ELSE <<>>)

Disposition_NoDryTest(c, o, lt) ==
  IF o.learnthendestroy
  THEN IF c.gmail THEN <<"copy_trash">> ELSE <<"store_deleted">>
  ELSE IF lt.moveto THEN <<"copy_moveto">>
  ELSE IF o.learnthenflag THEN <<"store_flagged">>
  ELSE <<>>

\* Lines 666-676: the operations issued on a taught message.
Disposition(c, o, lt) ==
  IF c.dryrun THEN <<>>
  ELSE IF o.learnthendestroy
  THEN IF c.gmail THEN <<"copy_trash">> ELSE <<"store_deleted">>
  ELSE IF lt.moveto THEN <<"copy_moveto">>
  ELSE IF o.learnthenflag THEN <<"store_flagged">>
  ELSE <<>>

\* The exception a disposition raises before anything is sent; the STOREs
\* of lines 671 and 676 pass (u, self.spamflagscmd, "(\\Deleted)") and
\* (u, self.spamflagscmd, "(\\Flagged)").
DispositionCall(d) ==
  CASE d = "store_deleted" ->
         store(<<0, spamflagscmd, StrArg("(\\Deleted)")>>)
    [] d = "store_flagged" ->
         store(<<0, spamflagscmd, StrArg("(\\Flagged)")>>)
    [] OTHER -> "ok"

NoLearnLast == [role |-> 0, uid |-> 0, code |-> 0, out |-> "", path |-> "none"]

\* spamlearn() about to start: folder[r] messages match the search criterion
\* in the folder of role r (uids 1..folder[r]), files[r] is its track file.
LearnStart(o, folder, files) ==
  [pc |-> "role", opts |-> o, role |-> 1, folder |-> folder, files |-> files,
   origpastuids |-> {}, uids |-> <<>>, idx |-> 1, newpastuids |-> <<>>,
   n_tolearn |-> 0, n_learnt |-> 0, result |-> <<>>,
   ops |-> {}, disp |-> [r \in Roles |-> [u \in 1..MaxLearnMsgs |-> <<>>]],
   seen |-> [r \in Roles |-> <<>>], skipped |-> [r \in Roles |-> {}],
   last |-> NoLearnLast, exc |-> NoExc]

\* The track file a learn folder starts with: none, or one of an earlier
\* run that taught message 1.
LearnFiles == {NoFile, JsonFile(1, {1})}

\* An option no step reads is not varied: a role without a folder has no
\* messages and no track file, and without any learn folder the learning
\* options are off.  The two folders hold at most MaxLearnMsgs messages
\* together.
NewLearn ==
  {LearnStart(x[1], x[2], x[3]) :
     x \in {y \in LearnOpts \X [Roles -> 0..MaxLearnMsgs] \X [Roles -> LearnFiles] :
              /\ \A r \in Roles :
                   ~learns(y[1])[r].inbox => (y[2][r] = 0 /\ y[3][r] = NoFile)
              /\ y[2][1] + y[2][2] <= MaxLearnMsgs
              /\ (~y[1].learnspambox /\ ~y[1].learnhambox) =>
                   (~y[1].movehamto /\ ~y[1].learnthendestroy
                      /\ ~y[1].learnthenflag)}}

\* The installations spamlearn() is followed on: the real runs that leave
\* the inbox alone, and the dry runs with the options that act on the inbox
\* without a STORE (--delete --gmail --expunge) all set or all unset.
LearnConfigs ==
  {c \in AllConfigs :
     /\ c.partialrun = 0 /\ c.deletehigherthan = <<>> /\ ~c.flag
     /\ ~c.dryrun => (~c.noreport /\ ~c.delete /\ ~c.expunge)
     /\ c.dryrun => (c.delete = c.gmail /\ c.expunge = c.gmail)}

InitLearn ==
  /\ cfg \in LearnConfigs
  /\ inbox = {1}
  /\ runsleft = 1
  /\ sess = NoSession
  /\ learn \in NewLearn
  /\ Fresh

LearnFolder(lt) == IF lt.learntype = "spam" THEN "learnspambox"
                   ELSE "learnhambox"

\* An OK answer to the UID SEARCH of lines 627-632.
LearnSearch(l) == [k \in 1..l.folder[l.role] |-> k]

LearnOp(l, name) == [l EXCEPT !.ops = @ \cup {<<l.role, name>>}]
LearnRaise(l, e) == [l EXCEPT !.pc = "aborted", !.exc = e]

\* Line 680: result.append((n_tolearn, n_learnt)), and the next learntype.
NextRole(l) ==
  [l EXCEPT !.result = Append(@, <<l.n_tolearn, l.n_learnt>>),
            !.role = @ + 1,
            !.pc = IF l.role + 1 > 2 THEN "done" ELSE "role"]

\* The for loop of line 638 goes on with the next uid.
LearnNext(l) ==
  [l EXCEPT !.idx = @ + 1,
            !.pc = IF l.idx + 1 > Len(l.uids) THEN "write" ELSE "loop"]

\* Lines 618-636: an iteration of "for learntype in learns" begins.  Without
\* a folder the counters stay 0; otherwise STATUS, pastuid_read, SELECT
\* (read-only, the default of ISBGImap.select), the unchecked SEARCH, and
\* the filter with int(u).
LearnRole ==
  /\ learn.pc = "role"
  /\ \E rstatus \in ImapResp, rselect \in ImapResp, rsearch \in ImapResp,
        junk \in JunkLists :
       LET lt == learns(learn.opts)[learn.role]
           l0 == [learn EXCEPT !.n_tolearn = 0, !.n_learnt = 0]
           l1 == LearnOp(l0, "status")
           l2 == LearnOp(l1, "select")
           l3 == LearnOp(l2, IF rsearch = "OK" THEN "search" ELSE "search_no")
           found == IF rsearch = "OK" THEN LearnSearch(learn) ELSE junk
           orig == pastuid_read(learn.files[learn.role], 1)
           us == Candidates(found, orig)
       IN
       /\ (~lt.inbox \/ _assertok(rstatus) # "none")
            => (rselect = "OK" /\ rsearch = "OK")
       /\ ~lt.inbox => rstatus = "OK"
       /\ _assertok(rselect) # "none" => rsearch = "OK"
       /\ rsearch = "OK" => junk = <<>>
       /\ IF ~lt.inbox
          THEN /\ learn' = NextRole(l0)
               /\ UNCHANGED selected
          ELSE IF _assertok(rstatus) # "none"
          THEN /\ learn' = LearnRaise(l1, Uncaught(_assertok(rstatus)))
               /\ UNCHANGED selected
          ELSE IF _assertok(rselect) # "none"
          THEN /\ learn' = LearnRaise(l2, Uncaught(_assertok(rselect)))
               /\ selected' = NoSelect
          ELSE /\ selected' = [mailbox |-> LearnFolder(lt), readonly |-> TRUE]
               /\ learn' =
                    IF NoUid \in Range(found)
                    THEN LearnRaise(l3, Uncaught("ValueError"))
                    ELSE [l3 EXCEPT
                            !.origpastuids = orig, !.newpastuids = <<>>,
                            !.uids = us, !.idx = 1, !.n_tolearn = Len(us),
                            !.pc = IF us = <<>> THEN "write" ELSE "loop"]
  /\ UNCHANGED <<cfg, sess, server, trackfile, runsleft, pc, locals, exc, did,
                 prev>>

\* Lines 667-676: the disposition d of message u is issued.
Dispose(l, u, d, resp) ==
  IF d = <<>> THEN LearnNext(l)
  ELSE LET calls == {DispositionCall(d[k]) : k \in 1..Len(d)} \ {"ok"}
           l1 == [l EXCEPT !.disp[l.role][u] = @ \o d,
                           !.ops = @ \cup {<<l.role, d[k]>> : k \in 1..Len(d)}]
       IN IF calls # {}
          THEN LearnRaise([l EXCEPT !.last.path = "dispfail"],
                          Uncaught(CHOOSE e \in calls : TRUE))
          ELSE IF _assertok(resp) # "none"
          THEN LearnRaise([l1 EXCEPT !.last.path = "dispfail"],
                          Uncaught(_assertok(resp)))
          ELSE LearnNext(l1)

\* Lines 660-676 for message u, given the text and the exit code.
Taught(c, l, u, out, code, resp) ==
  LET l1 == [l EXCEPT !.last.code = code, !.last.out = out] IN
  IF IsMisconfigured(code)
  THEN LearnRaise([l1 EXCEPT !.last.path = "misconfigured"],
                  errorexit(exitcodeflags))
  ELSE LET l2 == [l1 EXCEPT
                    !.n_learnt = IF out # alreadylearnt THEN @ + 1 ELSE @,
                    !.newpastuids = Append(@, u),
                    !.last.path = IF out # alreadylearnt THEN "learnt"
                                  ELSE "already"]
       IN Dispose(l2, u, Disposition(c, l.opts, learns(l.opts)[l.role]), resp)

\* Lines 639-676 for message u.
LearnBody(c, l, u, fetch, t, resp) ==
  LET l1 == [LearnOp(l, "fetch") EXCEPT
               !.last = [role |-> l.role, uid |-> u, code |-> 0, out |-> "",
                         path |-> "fetchfail"]]
  IN
  IF getmessage(fetch) # "none"
  THEN LearnRaise(l1, Uncaught(getmessage(fetch)))
  ELSE IF c.dryrun
  THEN Taught(c, l1, u, alreadylearnt, 0, resp)
  ELSE LET l2 == LearnOp(l1, "spamc") IN
       IF t.exc
       THEN LearnNext([l2 EXCEPT !.last.path = "teachexc",
                                 !.skipped[l.role] = @ \cup {u}])
       ELSE Taught(c, l2, u, t.out, t.code, resp)

\* An outcome the iteration never reads is not varied.
NoTeach == [exc |-> TRUE, out |-> "", code |-> 0]
LearnRead(c, l, fetch, t, resp) ==
  LET taught == fetch = "OK" /\ ~c.dryrun
      disposed == /\ taught /\ ~t.exc /\ ~IsMisconfigured(t.code)
                  /\ Disposition(c, l.opts, learns(l.opts)[l.role]) # <<>>
  IN /\ ~taught => t = NoTeach
     /\ (taught /\ ~t.exc /\ IsMisconfigured(t.code)) => t.out = alreadylearnt
     /\ ~disposed => resp = "OK"

LearnMessage ==
  /\ learn.pc = "loop"
  /\ \E fetch \in FetchOutcomes, t \in TeachOutcomes, resp \in ImapResp :
       /\ LearnRead(cfg, learn, fetch, t, resp)
       /\ learn' = LearnBody(cfg, learn, learn.uids[learn.idx], fetch, t, resp)
  /\ UNCHANGED <<cfg, sess, server, selected, trackfile, runsleft, pc, locals,
                 exc, did, prev>>

\* Lines 679-680: the track file of the role is written and the counters
\* are appended to the result.
LearnWrite ==
  /\ learn.pc = "write"
  /\ learn' = NextRole(
       [LearnOp(learn, "write") EXCEPT
          !.files[learn.role] =
             pastuid_write(1, learn.origpastuids, learn.newpastuids),
          !.seen[learn.role] = learn.newpastuids])
  /\ UNCHANGED <<cfg, sess, server, selected, trackfile, runsleft, pc, locals,
                 exc, did, prev>>

ScanAllowed_Always(l) == l.pc = "done"

\* Line 803: "if not self.teachonly:", reached when spamlearn() returned.
ScanAllowed(l) == l.pc = "done" /\ ~l.opts.teachonly

\* Lines 803-804: spamassassin() runs once spamlearn() has returned, unless
\* --teachonly.
LearnScan ==
  /\ ScanAllowed(learn)
  /\ Scan

NextLearn ==
  \/ LearnRole
  \/ LearnMessage
  \/ LearnWrite
  \/ LearnScan

SpecLearn == InitLearn /\ [][NextLearn]_vars

TypeOK ==
  /\ cfg \in Configs
  /\ inbox \subseteq UIDs
  /\ pc \in {"idle", "start", "loop", "write", "reselect", "flagspam",
             "trashspam", "deletelist", "expunge", "return", "done",
             "aborted", "rt_start", "rt_saved", "rt_loaded"}
  /\ idx \in 1..(MaxUid + 1)
  /\ Range(spamlist) \subseteq Range(uids)
  /\ Range(spamdeletelist) \subseteq Range(uids)

\* ================================================================ claims
\* The run has selected the folders, searched and loaded the seen uids.
Loaded ==
  /\ pc \in {"loop", "write", "reselect", "flagspam", "trashspam",
             "deletelist", "expunge", "return", "done", "aborted"}
  /\ uidvalidity # 0

\* The seen uids have been persisted by this run.
Written == "write" \in did

\* This run follows a completed run, and nothing changed in between: no new
\* mail, the same UIDVALIDITY, the track file as that run left it.
Repeated == Loaded /\ prev.status = "done"

\* The loop of a dry run stops when processednum > processmax, which is
\* its iteration processmax + 2; that message has been fetched by then.
DryRunLimit == processmax + 2

NothingToScan ==
  /\ uids = <<>>
  /\ did \cap {"fetch", "satest", "sasave", "append", "copy_spam"} = {}
  /\ pc = "done" => result.nummsg = 0

\* The search of this run, and that of the previous run, were answered with
\* the uids of the folder.
Listed == inboxuids = SearchSmaller /\ prev.found = SearchSmaller

\* C1 as stated: a run that follows a completed run, with no new mail and
\* the same UIDVALIDITY, has no candidate: it fetches nothing, runs no
\* classifier and returns nummsg = 0.
C1_Original == (Repeated /\ Listed) => NothingToScan

\* The previous run fetched every unseen message it found.
PrevScannedAll ==
  /\ Listed
  /\ prev.uids = prev.unseen
  /\ cfg.dryrun => Len(prev.uids) <= DryRunLimit

\* C1, amended: the same, provided both searches were answered with the
\* folder's uids, the previous run's candidates were not cut by the
\* partial-run cap and its loop was not cut short by the dry-run limit.
C1_Idempotent == (Repeated /\ PrevScannedAll) => NothingToScan

C1_Witness ==
  /\ Repeated /\ PrevScannedAll
  /\ prev.uids # <<>>
  /\ pc = "done" /\ result.nummsg = 0

\* The track file found at load time was missing, unparsable, or recorded
\* another UIDVALIDITY.
Stale ==
  \/ fileatload.kind # "json"
  \/ fileatload.uidvalidity # uidvalidity

\* C2: when the track file is missing, unparsable or of another UIDVALIDITY,
\* the loaded set is empty, every uid the search returned is a candidate, and
\* the file written at the end of the run holds the current UIDVALIDITY and
\* exactly the uids seen in this run.
C2_StaleIgnored ==
  (Loaded /\ Stale) =>
    /\ origpastuids = {}
    /\ unseen = inboxuids
    /\ uidvalidity = mbox_uidvalidity
    /\ Written => trackfile = JsonFile(mbox_uidvalidity, Range(newpastuids))

C2_Witness ==
  /\ Loaded
  /\ fileatload.kind = "json" /\ fileatload.uidvalidity # uidvalidity
  /\ pc = "done"
  /\ newpastuids # <<>>
  /\ fileatload.uids \ trackfile.uids # {}

\* The number of messages a run with cap n and the unseen list us handles.
Handled(n, us, limit) == Min(Min(n, Len(us)), limit)

PartialRun(limit) ==
  (Loaded /\ cfg.partialrun # 0) =>
     /\ Written =>
          LET k == Handled(cfg.partialrun, unseen, limit) IN
            /\ newpastuids = SubSeq(unseen, 1, k)
            /\ trackfile =
                 JsonFile(uidvalidity, origpastuids \cup Range(SubSeq(unseen, 1, k)))
     /\ (prev.status = "done" /\ Listed) =>
          LET k == Handled(cfg.partialrun, prev.unseen, limit) IN
            unseen = SubSeq(prev.unseen, k + 1, Len(prev.unseen))

C4_RoundTrip ==
  (pc = "rt_loaded" /\ uidvalidity = prev.uidvalidity) =>
     origpastuids = prev.orig \cup Range(prev.seen)

C4_Witness ==
  /\ pc = "rt_loaded" /\ uidvalidity = prev.uidvalidity
  /\ prev.orig \cap Range(prev.seen) # {}
  /\ Range(prev.seen) \ prev.orig # {}
  /\ origpastuids = prev.orig \cup Range(prev.seen)

\* The loop has just judged message last.uid spam (nonzero exit code, score
\* not 0/0).
SpamPaths == {"delete", "report", "copy", "dry", "saveexc", "crnlexc",
              "appendfail", "copyfail"}
JudgedSpam == last.uid # 0 /\ last.path \in SpamPaths

\* C5: the delete threshold is compared strictly: a spam message goes on the
\* delete list exactly when its score is greater than deletehigherthan; at a
\* score equal to it the message takes the report/copy branch, and is on the
\* spam list once its append or copy went through.
C5_StrictThreshold ==
  (JudgedSpam /\ cfg.deletehigherthan # <<>>) =>
     LET num == Numerator(last.score)
         t == cfg.deletehigherthan[1]
     IN /\ (last.uid \in Range(spamdeletelist)) <=> (num > t)
        /\ (last.path = "delete") <=> (num > t)
        /\ num = t =>
             /\ last.path \in {"report", "copy", "dry"} =>
                  last.uid \in Range(spamlist)
             /\ last.path \in {"report", "copy"} => spambox[last.uid] = 1

C5_Witness ==
  /\ JudgedSpam /\ cfg.deletehigherthan # <<>> /\ ~cfg.dryrun
  /\ Numerator(last.score) = cfg.deletehigherthan[1]
  /\ last.path = "report"
  /\ last.uid \in Range(spamlist)
  /\ spambox[last.uid] = 1

\* C6: a completed run returns nummsg = the number of candidates after
\* filtering and truncation, spamdeleted = the length of the delete list and
\* numspam = spam list + delete list, with spamdeleted <= numspam <= nummsg;
\* a message judged ham is on neither list.
C6_Counters ==
  /\ pc = "done" =>
       /\ uids = Truncate(cfg, Candidates(inboxuids, origpastuids))
       /\ result.nummsg = Len(uids)
       /\ result.spamdeleted = Len(spamdeletelist)
       /\ result.numspam = Len(spamlist) + Len(spamdeletelist)
       /\ result.spamdeleted <= result.numspam
       /\ result.numspam <= result.nummsg
  /\ last.path = "ham" =>
       last.uid \notin Range(spamlist) \cup Range(spamdeletelist)

C6_Witness ==
  /\ pc = "done" /\ ~cfg.dryrun
  /\ result = [numspam |-> 2, nummsg |-> 2, spamdeleted |-> 1]

\* C7: the spam list and the delete list are disjoint, and no message of the
\* delete list (score above the threshold) was appended or copied to the
\* spam folder.
C7_DeleteNotReported ==
  /\ Range(spamlist) \cap Range(spamdeletelist) = {}
  /\ \A u \in Range(spamdeletelist) : spambox[u] = 0
  /\ (JudgedSpam /\ cfg.deletehigherthan # <<>>
        /\ Numerator(last.score) > cfg.deletehigherthan[1]) =>
       /\ last.uid \notin Range(spamlist)
       /\ spambox[last.uid] = 0

C7_Witness ==
  /\ spamdeletelist # <<>> /\ spamlist # <<>>
  /\ \E u \in Range(spamlist) : spambox[u] = 1
  /\ last.path = "delete"

\* C8 as stated: in a real run whose loop completed, the delete-list stage,
\* unless the server refuses an operation, leaves every message of the delete
\* list in the trash folder (gmail) or flagged \Deleted (otherwise), and the
\* run goes on.
C8_DeleteListApplied ==
  [][(pc = "deletelist" /\ ~cfg.dryrun /\ exc'.type # "ISBGImapError") =>
       /\ pc' = "expunge"
       /\ \A u \in Range(spamdeletelist) :
            IF cfg.gmail THEN u \in trash' ELSE "\\Deleted" \in flags'[u]]_vars

\* C9 as stated: in a real run with a non-empty configured flag set, the
\* flag stage, unless the server refuses an operation, leaves every message
\* of the spam list with the configured flags, and the run goes on.
C9_SpamListFlagged ==
  [][(pc = "flagspam" /\ ~cfg.dryrun /\ spamflags(cfg) # <<>>
        /\ exc'.type # "ISBGImapError") =>
       /\ pc' = "trashspam"
       /\ \A u \in Range(spamlist) : Range(spamflags(cfg)) \subseteq flags'[u]]_vars

\* C10: a nonzero exit code with the score text 0/0 ends the run with exit
\* status exitcodespamc at that message: no later candidate is fetched, the
\* message is on no list and not in the spam folder, the track file is not
\* written, and no flag, trash copy or expunge is issued.
C10_DegenerateAborts ==
  (last.path \in SpamPaths \cup {"degenerate", "ham"}
     /\ last.score = "0/0\n" /\ last.code # 0) =>
       /\ pc = "aborted"
       /\ exc = [type |-> "SystemExit", code |-> exitcodespamc]
       /\ uids[idx] = last.uid
       /\ Len(newpastuids) = idx
       /\ last.uid \notin Range(spamlist) \cup Range(spamdeletelist)
       /\ spambox[last.uid] = 0
       /\ ~Written /\ trackfile = fileatload
       /\ did \cap {"write", "store", "copy_trash", "expunge"} = {}

C10_Witness ==
  /\ pc = "aborted" /\ last.score = "0/0\n" /\ last.code = 1
  /\ exc.code = exitcodespamc
  /\ idx < Len(uids)

\* No STORE reached an inbox message and none was copied to the trash.
NotMarked ==
  /\ did \cap {"store", "copy_trash"} = {}
  /\ flags = [u \in UIDs |-> {}]
  /\ trash = {}

C13_GoneSkipped ==
  (last.path = "fetchfail" /\ exc.type # "ISBGImapError") =>
     /\ pc # "aborted"
     /\ last.uid \in Range(newpastuids)

\* C14 as stated: a refused APPEND (report) or COPY (--noreport) of a spam
\* to the spam folder does not end the run, and the message is left out of
\* the spam list.
C14_ReportFailureSkipped ==
  last.path \in {"appendfail", "copyfail"} =>
     /\ pc # "aborted"
     /\ last.uid \notin Range(spamlist)

\* C15 as stated: after a SEARCH answered NO the run is over with
\* ISBGImapError: no FETCH, no classifier, no change of a mailbox and no
\* write of the track file follow.
C15_SearchFailureAborts ==
  "search_no" \in did =>
     /\ pc = "aborted" /\ exc.type = "ISBGImapError"
     /\ did \cap {"fetch", "satest", "sasave", "append", "copy_spam", "write",
                  "store", "copy_trash", "expunge"} = {}
     /\ trackfile = fileatload

\* C17 as stated: as long as the UIDVALIDITY of the folder has not changed,
\* no message has been appended or copied to the spam folder twice, over any
\* sequence of runs, aborted ones included.
C17_AtMostOnce ==
  mbox_uidvalidity = 1 => \A u \in UIDs : spambox[u] <= 1

\* The paths of the loop body on which the body of the message was fetched.
FetchedPaths == {"ham", "delete", "report", "copy", "dry", "saveexc",
                 "appendfail", "scoreexc", "break"}

\* C20: a message is recorded as seen once its body has been fetched,
\* whatever follows; the write at the end of the loop persists every such
\* uid, and a run that loads a track file of the same UIDVALIDITY has none of
\* the persisted uids as a candidate.
C20_SeenOnceFetched ==
  /\ (Loaded /\ pc # "aborted") =>
       \A k \in 1..(idx - 1) : uids[k] \in Range(newpastuids)
  /\ last.path \in FetchedPaths => last.uid \in Range(newpastuids)
  /\ Written => Range(newpastuids) \subseteq trackfile.uids
  /\ (Loaded /\ fileatload.kind = "json"
        /\ fileatload.uidvalidity = uidvalidity) =>
       Range(uids) \cap fileatload.uids = {}
  /\ Repeated => Range(uids) \cap Range(prev.seen) = {}

C20_Witness ==
  /\ Repeated /\ ~cfg.dryrun /\ pc = "done"
  /\ \E u \in Range(prev.seen) : spambox[u] = 0 /\ u \in inbox
  /\ \E u \in Range(prev.seen) : spambox[u] = 1
  /\ uids = <<>>

\* C16 as stated: whatever step a run takes, the process ending included, a
\* Load under the run's UIDVALIDITY gives afterwards either what it gave
\* before the step or that united with the uids the run has seen.
C16_NeverPartial ==
  [][(pc \in {"loop", "write"}) =>
       (pastuid_read(trackfile', uidvalidity) \in
          {pastuid_read(trackfile, uidvalidity),
           pastuid_read(trackfile, uidvalidity) \cup Range(newpastuids)})]_vars

\* C11 as stated: once the options are set with both learnflagged and
\* learnunflagged, the configuration has been rejected and no protocol
\* traffic has taken place, whether they were set by set_learning_opts or
\* from the command line.
C11_BothRejected ==
  (sess.phase \notin {"none", "new"}
     /\ sess.learnflagged /\ sess.learnunflagged) =>
       /\ sess.phase = "rejected"
       /\ sess.io = {}
       /\ did = {}

\* C18: ISBGImap.logout sends LOGOUT at most once per session object: once
\* when the connection was opened, never when it was not; after any call
\* self.imap is None, and the later calls (the finalizer's, after do_isbg
\* logged out) send nothing.
C18_LogoutIdempotent ==
  sess.phase # "none" =>
    /\ sess.logouts <= 1
    /\ sess.logouts = 1 => sess.opened
    /\ sess.calls >= 1 =>
         /\ sess.imap = "None"
         /\ sess.logouts = IF sess.opened THEN 1 ELSE 0

C18_Witness ==
  /\ sess.phase = "exited" /\ sess.exc = NoExc
  /\ sess.calls = MaxLogoutCalls
  /\ sess.logouts = 1
  /\ sess.imap = "None"

\* The statuses of the normal outcomes.
NormalStatuses ==
  {exitcodeok, exitcodenewmsgs, exitcodenewspam, exitcodenewmsgspam}

\* C19 as stated: a process that ended with a protocol error, a
\* classifier-transport error or a classifier-misconfigured error has an exit
\* status that is none of the normal statuses and is not the status of
\* another of these error kinds.
C19_DistinctExitStatus ==
  sess.phase = "exited" =>
    /\ sess.kind \in {"protocol", "transport", "misconfigured"} =>
         sess.status \notin NormalStatuses
    /\ sess.kind = "protocol" =>
         sess.status \notin {exitcodespamc, exitcodeflags}
    /\ sess.kind = "transport" => sess.status = exitcodespamc
    /\ sess.kind = "misconfigured" => sess.status = exitcodeflags

\* C21: when the SELECT of the spam folder is refused at the start of
\* spamassassin(), the run is over with ISBGImapError: the inbox is not
\* selected, nothing else is issued (no STATUS, SEARCH, FETCH, classifier,
\* APPEND, COPY, STORE or EXPUNGE), no mailbox changes and the track file of
\* the inbox stays as it was.
C21_SpamSelectFailFast ==
  [][("select_spam_no" \in did') =>
       /\ pc' = "aborted"
       /\ exc' = Uncaught("ISBGImapError")
       /\ did' = {"select_spam", "select_spam_no"}
       /\ selected'.mailbox # "imapinbox"
       /\ server' = server
       /\ trackfile' = trackfile]_vars

C21_Witness ==
  /\ pc = "aborted" /\ "select_spam_no" \in did
  /\ exc.type = "ISBGImapError"
  /\ trackfile.kind = "json" /\ trackfile.uids # {}
  /\ \E u \in UIDs : spambox[u] = 1

\* The steps of lines 580-597.
PostLoopStages == {"reselect", "flagspam", "trashspam", "deletelist",
                   "expunge"}

\* C22: the track file is written before any STORE, trash copy or EXPUNGE
\* of the run; and a run whose spam list and delete list are both empty
\* goes from the write straight to the return: no second SELECT of the
\* inbox, no STORE, no trash copy and no EXPUNGE, with or without --expunge.
C22_PostLoopGuarded ==
  /\ did \cap {"store", "copy_trash", "expunge"} # {} => Written
  /\ pc \in PostLoopStages =>
       (Written /\ (spamlist # <<>> \/ spamdeletelist # <<>>))
  /\ (Loaded /\ spamlist = <<>> /\ spamdeletelist = <<>>) =>
       /\ did \cap {"store", "copy_trash", "expunge"} = {}
       /\ pc \notin PostLoopStages
       /\ flags = [u \in UIDs |-> {}] /\ trash = {}

C22_Witness ==
  /\ pc = "done" /\ ~cfg.dryrun /\ cfg.expunge /\ cfg.gmail /\ cfg.delete
  /\ uids # <<>> /\ Len(newpastuids) = Len(uids)
  /\ spamlist = <<>> /\ spamdeletelist = <<>>
  /\ Written /\ "expunge" \notin did

\* The last message got a score text and an exit code, from the classifier
\* or from the dry run.
Scored == last.uid # 0 /\ last.path \in SpamPaths \cup {"ham", "degenerate"}

\* The message is treated as ham: on no list, not in the spam folder, and
\* the run goes on.
TreatedAsHam ==
  /\ last.path = "ham"
  /\ pc # "aborted" /\ exc = NoExc
  /\ last.uid \notin Range(spamlist) \cup Range(spamdeletelist)
  /\ spambox[last.uid] = 0

\* C23 as stated: a message scored with exit code 0 is treated as ham
\* whatever the score text: on no list, not in the spam folder, and the run
\* goes on with the next candidate.
C23_Original == (Scored /\ last.code = 0) => TreatedAsHam

\* C23, amended: a message scored with exit code 0 is treated as ham unless
\* the score text is exactly 0/0; with the text 0/0 the run ends with exit
\* status exitcodespamc, the exit code being 0 or not, and the message is on
\* no list and not in the spam folder either.
C23_ZeroIsHam ==
  (Scored /\ last.code = 0) =>
     IF last.score = "0/0\n"
     THEN /\ last.path = "degenerate"
          /\ pc = "aborted"
          /\ exc = [type |-> "SystemExit", code |-> exitcodespamc]
          /\ last.uid \notin Range(spamlist) \cup Range(spamdeletelist)
          /\ spambox[last.uid] = 0
     ELSE TreatedAsHam

C23_Witness ==
  /\ Scored /\ last.code = 0 /\ last.score = "12/10\n"
  /\ ~cfg.dryrun /\ cfg.deletehigherthan # <<>>
  /\ TreatedAsHam
  /\ pc = "loop" /\ idx = Len(uids)

\* spamlearn() is followed in this behaviour.
Learning == learn.pc # "none"

\* The one operation the options call for on a taught message of role r.
ByPrecedence(r) ==
  IF learn.opts.learnthendestroy
  THEN IF cfg.gmail THEN "copy_trash" ELSE "store_deleted"
  ELSE IF r = 2 /\ learn.opts.movehamto THEN "copy_moveto"
  ELSE IF learn.opts.learnthenflag THEN "store_flagged"
  ELSE "none"

\* C24: in spamlearn() a message gets at most one operation after it was
\* taught, the first that applies of: with learnthendestroy the copy to
\* [Gmail]/Trash (gmail) or the STORE of \Deleted; for the ham folder with
\* movehamto the copy to that folder; with learnthenflag the STORE of
\* \Flagged.  A message of the learn-spam folder is never copied to
\* movehamto, and a message that was not taught gets none.
C24_OneDisposition ==
  Learning =>
    /\ \A r \in Roles, u \in 1..MaxLearnMsgs :
         LET d == learn.disp[r][u] IN
           /\ Len(d) <= 1
           /\ d # <<>> =>
                /\ d = <<ByPrecedence(r)>>
                /\ ~cfg.dryrun
                /\ u \notin learn.skipped[r]
                /\ u \in Range(IF r = learn.role THEN learn.newpastuids
                               ELSE learn.seen[r])
           /\ r = 1 => "copy_moveto" \notin Range(d)
    /\ (learn.last.path \in {"learnt", "already"} /\ ~cfg.dryrun
          /\ ByPrecedence(learn.last.role) # "none") =>
         learn.disp[learn.last.role][learn.last.uid] =
           <<ByPrecedence(learn.last.role)>>

C24_Witness ==
  /\ Learning /\ learn.pc = "done"
  /\ ~learn.opts.learnthendestroy /\ learn.opts.movehamto
  /\ learn.opts.learnthenflag
  /\ learn.disp[1][1] = <<"store_flagged">>
  /\ learn.disp[2][1] = <<"copy_moveto">>

\* The uids of role r recorded as seen so far.
LearnSeen(r) == IF r = learn.role THEN learn.newpastuids ELSE learn.seen[r]

ScanNotStarted ==
  /\ pc = "idle" /\ did = {}
  /\ selected.mailbox # "imapinbox"
  /\ trackfile = NoFile
  /\ spambox = [u \in UIDs |-> 0] /\ trash = {}
  /\ flags = [u \in UIDs |-> {}]

\* C26: spamassassin() is entered only after spamlearn() has returned the
\* counters of both roles, and never under --teachonly (no SELECT of the
\* spam folder or the inbox, no SEARCH, no classifier, no write of the
\* inbox's track file); a role without a folder issues no operation, has no
\* track file written and returns the counters (0, 0).
C26_LearnThenScan ==
  Learning =>
    /\ ~ScanNotStarted =>
         /\ learn.pc = "done" /\ Len(learn.result) = 2
         /\ ~learn.opts.teachonly
    /\ learn.opts.teachonly => ScanNotStarted
    /\ \A r \in Roles :
         ~learns(learn.opts)[r].inbox =>
           /\ \A o \in learn.ops : o[1] # r
           /\ learn.files[r] = NoFile
           /\ learn.disp[r] = [u \in 1..MaxLearnMsgs |-> <<>>]
           /\ r < learn.role => learn.result[r] = <<0, 0>>

C26_Witness ==
  /\ Learning /\ learn.pc = "done" /\ learn.opts.teachonly
  /\ learn.opts.learnspambox /\ ~learn.opts.learnhambox
  /\ learn.result = << <<1, 1>>, <<0, 0>> >>
  /\ <<1, "write">> \in learn.ops
  /\ ScanNotStarted

\* The operations of spamlearn() that change nothing outside the process,
\* and the write of the track file.
LearnReadOps == {"status", "select", "search", "search_no", "fetch", "write"}

\* C27: in a dry run neither spamlearn() nor spamassassin() runs a process
\* (spamc --learntype, the classifier, the report) or issues an APPEND, a
\* COPY, a STORE or an EXPUNGE; the folders stay as they are, and the
\* verdicts are made up: every taught message counts as already learnt with
\* exit code 0, the scanned ones get 10/10 with code 1 or 0/10 with code 0.
C27_DryRunNoEffects ==
  (Learning /\ cfg.dryrun) =>
    /\ \A o \in learn.ops : o[2] \in LearnReadOps
    /\ \A r \in Roles, u \in 1..MaxLearnMsgs : learn.disp[r][u] = <<>>
    /\ learn.last.path \notin {"teachexc", "misconfigured", "dispfail",
                               "learnt"}
    /\ learn.last.path = "already" =>
         (learn.last.out = alreadylearnt /\ learn.last.code = 0)
    /\ did \cap {"satest", "sasave", "append", "copy_spam", "store",
                 "copy_trash", "expunge"} = {}
    /\ pc \notin PostLoopStages
    /\ spambox = [u \in UIDs |-> 0] /\ trash = {}
    /\ flags = [u \in UIDs |-> {}]
    /\ Scored =>
         (<<last.score, last.code>> \in {<<"10/10", 1>>, <<"0/10", 0>>})

C27_Witness ==
  /\ Learning /\ cfg.dryrun /\ cfg.gmail /\ cfg.delete /\ cfg.expunge
  /\ learn.opts.learnthendestroy
  /\ learn.pc = "done"
  /\ learn.seen[1] = <<1>> /\ learn.seen[2] = <<1>>
  /\ pc = "done" /\ spamlist = <<1>>

\* C28 as stated: no step of a dry run changes what a later Load gives for
\* the inbox, the learn-spam folder or the learn-ham folder under the same
\* UIDVALIDITY, so that a later real run has the candidates it would have
\* had without the dry run.
C28_DryRunKeepsSeenSets ==
  [][(Learning /\ cfg.dryrun) =>
       /\ pastuid_read(trackfile', mbox_uidvalidity) =
            pastuid_read(trackfile, mbox_uidvalidity)
       /\ \A r \in Roles :
            pastuid_read(learn'.files[r], 1) =
              pastuid_read(learn.files[r], 1)]_vars

\* The paths of the loop body that end without the message on the spam
\* list: ham, a failed fetch, classifier or report, a refused APPEND or COPY,
\* the delete list.
UnlistedPaths == {"ham", "fetchfail", "scoreexc", "degenerate", "delete",
                  "saveexc", "crnlexc", "appendfail", "copyfail"}

\* C29: in a real run every message on the spam list was appended or copied
\* to the spam folder by this run's loop and was not among the uids loaded
\* from the track file; a ham message and one whose APPEND or COPY was
\* refused are not on it; and the flag stage and the trash stage of the spam
\* list change the flags of, or copy to the trash, only messages of the
\* spam list.
C29_SpamListOnly ==
  [][~cfg.dryrun =>
       /\ \A u \in Range(spamlist') :
            /\ spambox'[u] >= 1
            /\ u \notin origpastuids'
            /\ did' \cap {"append", "copy_spam"} # {}
       /\ last'.path \in UnlistedPaths => last'.uid \notin Range(spamlist')
       /\ pc \in {"flagspam", "trashspam"} =>
            \A u \in UIDs :
              (u \in trash' \ trash \/ flags'[u] # flags[u]) =>
                 (u \in Range(spamlist) /\ spambox[u] >= 1
                    /\ u \notin origpastuids)]_vars

C29_Witness ==
  /\ prev.status = "done" /\ pc = "done" /\ ~cfg.dryrun
  /\ origpastuids = {1} /\ spambox[1] = 0
  /\ spamlist = <<2>> /\ spambox[2] = 1
  /\ trash = {2}

\* The folder is selected for changes.
ReadWrite(mailbox) == [mailbox |-> mailbox, readonly |-> FALSE]

\* C30 as stated: a step of spamassassin() that issues a STORE or an
\* EXPUNGE starts with the inbox selected read-write, and a step of
\* spamlearn() that issues a STORE starts with the learn folder of its role
\* selected read-write.
C30_SelectedReadWrite ==
  [][/\ (did' \ did) \cap {"store", "expunge"} # {} =>
          selected = ReadWrite("imapinbox")
     /\ Learning =>
          \A r \in Roles :
            (learn'.ops \ learn.ops)
               \cap {<<r, "store_deleted">>, <<r, "store_flagged">>} # {} =>
              selected = ReadWrite(LearnFolder(learns(learn.opts)[r]))]_vars

====
